---- MODULE Spec2Model ----
(***************************************************************************)
(* Schema registry (models/SchemaDefinitions.js) and the routes that read  *)
(* it (routes/api.js, routes/auth.js, routes/upload.js).                   *)
(*                                                                         *)
(* JavaScript values are encoded as records tagged by their only field:    *)
(*   [ctor |-> "String"]   a type constructor (String, Date, Number, ...)  *)
(*   [arr  |-> v]          a one-element array literal [v]                 *)
(*   [obj  |-> m]          a plain object, m a function from keys to values*)
(*   [list |-> s]          an array of string literals                     *)
(*   [lit  |-> "x"]        a string literal                                *)
(*   [bool |-> TRUE]       a boolean literal                               *)
(*   [fn   |-> "Date.now"] a function reference                            *)
(* An optional member of a JSON document is a sequence of length 0 or 1.   *)
(***************************************************************************)
EXTENDS Integers, Sequences, FiniteSets, TLC

\* ---------------------------------------------------------------- bounds
\* Largest number of entries in the definitions directory (registry build).
MaxFiles == 3
\* Largest nesting depth (items / properties levels) of a descriptor.
MaxDepth == 2
\* Largest number of descriptor objects in memory for one call of convertType.
MaxNodes == 3
\* Largest number of nested calls of convertType the call stack holds.
MaxStack == 2
\* How many times one definition is compiled.
MaxCompilations == 2
\* Largest number of records ever inserted into the store (all collections).
MaxRecords == 1
\* Largest number of entries in file_urls.
MaxUrls == 2

\* ------------------------------------------------------------ JS values
Ctor(n) == [ctor |-> n]
Arr(v) == [arr |-> v]
Obj(m) == [obj |-> m]
List(s) == [list |-> s]
Lit(s) == [lit |-> s]
Bool(b) == [bool |-> b]
Fn(n) == [fn |-> n]

\* An object with the members of a, and those of b that a does not have.
Merge(a, b) ==
  [k \in DOMAIN a \cup DOMAIN b |-> IF k \in DOMAIN a THEN a[k] ELSE b[k]]

\* object[key] = value
Put(object, key, value) ==
  [k \in DOMAIN object \cup {key} |-> IF k = key THEN value ELSE object[k]]

\* Variant: the permissive fallback is the text type.
MixedAsText == Ctor("String")

\* mongoose.Schema.Types.Mixed
Mixed == Ctor("Mixed")
\* The value of a member that the JSON document does not have.
NoType == "undefined"

\* A type descriptor with only its type set.
Desc(t) ==
  [type |-> t, format |-> NoType, items |-> <<>>, properties |-> <<>>,
   enum |-> <<>>, default |-> <<>>]

\* The "fake field object" { type: t } of the array-of-primitives branch.
FakeField(t) == Desc(t)

\* ----------------------------------------------------------- convertType
RECURSIVE convertType(_)

\* nestedSchema[key] = convertType(properties[key]) for every key.
nestedSchema(properties) ==
  IF properties = <<>> THEN <<>>
  ELSE [key \in DOMAIN properties[1] |-> Obj(convertType(properties[1][key]))]

\* Variant: an array of objects is compiled like an array without items.
schemaTypeOfOpaqueRecords(field) ==
  IF field.type = "string" THEN
    IF field.format = "date" \/ field.format = "date-time"
    THEN Ctor("Date") ELSE Ctor("String")
  ELSE IF field.type = "number" \/ field.type = "integer" THEN Ctor("Number")
  ELSE IF field.type = "boolean" THEN Ctor("Boolean")
  ELSE IF field.type = "array" THEN
    IF field.items # <<>> /\ field.items[1].type # NoType
         /\ field.items[1].type # "object"
    THEN Arr(convertType(FakeField(field.items[1].type)).type)
    ELSE Arr(Mixed)
  ELSE Mixed

\* The type a descriptor compiles to (every branch but 'object').
schemaTypeOf(field) ==
  IF field.type = "string" THEN
    IF field.format = "date" \/ field.format = "date-time"
    THEN Ctor("Date") ELSE Ctor("String")
  ELSE IF field.type = "number" \/ field.type = "integer" THEN Ctor("Number")
  ELSE IF field.type = "boolean" THEN Ctor("Boolean")
  ELSE IF field.type = "array" THEN
    IF field.items # <<>> /\ field.items[1].type = "object"
    THEN Arr(Obj(nestedSchema(field.items[1].properties)))
    ELSE IF field.items # <<>> /\ field.items[1].type # NoType
    THEN Arr(convertType(FakeField(field.items[1].type)).type)
    ELSE Arr(Mixed)
  ELSE Mixed

\* schemaType.enum = field.enum when the descriptor has one.
withEnum(schemaType, field) ==
  IF field.enum # <<>> THEN Put(schemaType, "enum", List(field.enum[1]))
  ELSE schemaType

\* Variant: the default of a descriptor is not copied.
withDefaultDropped(schemaType, field) == schemaType

\* schemaType.default = field.default when it is not undefined.
withDefault(schemaType, field) ==
  IF field.default # <<>> THEN Put(schemaType, "default", Lit(field.default[1]))
  ELSE schemaType

\* Variant: the object branch does not return early, so the enum and the
\* default of the object descriptor are added to the nested shape.
convertTypeEnveloped(field) ==
  IF field.type = "object"
  THEN withDefault(withEnum(nestedSchema(field.properties), field), field)
  ELSE withDefault(withEnum([type |-> schemaTypeOf(field)], field), field)

convertType(field) ==
  IF field.type = "object" THEN nestedSchema(field.properties)
  ELSE withDefault(withEnum([type |-> schemaTypeOf(field)], field), field)

\* ------------------------------------------- definition files (inputs)
\* An entity definition: optional name, optional properties, optional required.
Def(name, properties, required) ==
  [name |-> name, properties |-> properties, required |-> required]

\* A directory entry: file name = stem + ext; parses = require() returns.
Entry(stem, ext, parses, definition) ==
  [stem |-> stem, ext |-> ext, parses |-> parses, definition |-> definition]

EmptyDef == Def(<<>>, <<>>, <<>>)

Priorities == <<"low", "medium", "high", "urgent">>

\* Task.json: title required, priority enum with default, subtasks array of records.
TaskProps ==
  [title |-> Desc("string"),
   priority |-> [Desc("string") EXCEPT !.enum = <<Priorities>>, !.default = <<"medium">>],
   subtasks |-> [Desc("array") EXCEPT !.items =
                   <<[Desc("object") EXCEPT !.properties =
                        <<[name |-> Desc("string"), done |-> Desc("boolean")]>>]>>]]
TaskFile == Entry("Task", ".json", TRUE, Def(<<"Task">>, <<TaskProps>>, <<{"title"}>>))

\* Ticket.json declares the name Task a second time, with other fields.
TicketFile ==
  Entry("Ticket", ".json", TRUE,
        Def(<<"Task">>, <<[summary |-> Desc("string")]>>, <<>>))

\* User.json that require() cannot parse.
BadUserFile == Entry("User", ".json", FALSE, EmptyDef)

\* Account.json: a well-formed definition of User without password or role.
AccountFile ==
  Entry("Account", ".json", TRUE,
        Def(<<"User">>,
            <<[email |-> Desc("string"), full_name |-> Desc("string")]>>,
            <<{"email"}>>))

\* Place.json: no name member; a nested object with a sub-field named 'type',
\* listed in required.
PlaceFile ==
  Entry("Place", ".json", TRUE,
        Def(<<>>,
            <<[address |-> [Desc("object") EXCEPT !.properties =
                              <<[type |-> Desc("string"), street |-> Desc("string")]>>],
               visited |-> [Desc("string") EXCEPT !.format = "date"]]>>,
            <<{"address"}>>))

\* Label.json: enums at every position, a required nested object, a property
\* named created_date, an array without items and a field of unknown type.
LabelFile ==
  Entry("Label", ".json", TRUE,
        Def(<<"Label">>,
            <<[color |-> [Desc("string") EXCEPT !.enum = <<(<<"red", "blue">>)>>],
               tags |-> [Desc("array") EXCEPT !.items =
                           <<[Desc("string") EXCEPT !.enum = <<(<<"a", "b">>)>>]>>],
               meta |-> [Desc("object") EXCEPT !.properties =
                           <<[kind |-> [Desc("string") EXCEPT !.enum = <<(<<"x", "y">>)>>],
                              rank |-> Desc("integer")]>>],
               marks |-> [Desc("array") EXCEPT !.items =
                           <<[Desc("object") EXCEPT !.properties =
                                <<[level |-> [Desc("string") EXCEPT
                                                !.enum = <<(<<"hi", "lo">>)>>]]>>]>>],
               created_date |-> Desc("string"),
               bag |-> Desc("array"),
               blob |-> Desc("geo")]>>,
            <<{"meta", "color"}>>))

\* Tenant.json, used by the register route.
TenantFile ==
  Entry("Tenant", ".json", TRUE,
        Def(<<"Tenant">>,
            <<[name |-> Desc("string"), owner_email |-> Desc("string"),
               status |-> [Desc("string") EXCEPT !.default = <<"active">>]]>>,
            <<{"name"}>>))

\* Loose.json: a property whose descriptor is {} and a nested object with
\* such a property.
LooseFile ==
  Entry("Loose", ".json", TRUE,
        Def(<<"Loose">>,
            <<[anything |-> Desc(NoType),
               box |-> [Desc("object") EXCEPT !.properties = <<[inner |-> Desc(NoType)]>>]]>>,
            <<>>))

\* A directory entry that is not a .json file.
ReadmeFile == Entry("README", ".md", TRUE, EmptyDef)

Catalogue ==
  {TaskFile, TicketFile, BadUserFile, AccountFile, PlaceFile, LabelFile,
   TenantFile, LooseFile, ReadmeFile}

\* Directory listings: up to MaxFiles entries with distinct file names, in
\* any enumeration order.
ListingsOf(entries, most) ==
  {l \in UNION {[1..n -> entries] : n \in 0..most} :
     \A a, b \in DOMAIN l : a # b => <<l[a].stem, l[a].ext>> # <<l[b].stem, l[b].ext>>}

Listings == ListingsOf(Catalogue, MaxFiles)

\* The directories of the builds whose registry then serves requests.
ServedListings == {<<>>, <<TaskFile, TenantFile>>}

\* ---------------------------------------------------------------- state
VARIABLES
  dirExists,       \* fs.existsSync(modelsPath)
  files,           \* fs.readdirSync(modelsPath), in enumeration order
  cursor,          \* index of the next directory entry the forEach visits
  pc,              \* "scan" | "serving"
  Models,          \* the exported registry: entity-kind name -> model
  mongooseModels,  \* names mongoose.model() has compiled (mongoose.models)
  console,         \* lines written by console.log / console.warn / console.error
  store,           \* the records of every collection, in insertion order
  nextId,          \* source of fresh ObjectIds
  response,        \* the answer to the last request, once it is sent
  source,          \* a definition as its JSON file states it
  cached,          \* the object require() returned for it, which is compiled
  returned,        \* what convertType returned for its property, once called
  schemas,         \* the schemaObj of each compilation of the definition
  heap,            \* descriptor objects in memory, by address
  stack,           \* the active calls of convertType, innermost last
  visits,          \* how often convertType was called on each address
  ending,          \* how the outermost call of convertType ended
  request,         \* the AI route whose handler is running, or "none"
  run,             \* the generateWithRetry invocation of that handler
  callLog,         \* the model calls the handler has made, in order
  fileUrls,        \* req.body.file_urls of the llm route
  urlIndex,        \* the entry of file_urls the attachment loop is at
  parts,           \* the parts array of the llm route
  loadedFiles,     \* the loadedFiles array of the llm route
  skippedFiles     \* the skippedFiles array of the llm route

\* The registry and the routes.
serverVars ==
  <<dirExists, files, cursor, pc, Models, mongooseModels, console, store,
    nextId, response>>
\* One definition being compiled.
compilerVars == <<source, cached, returned, schemas>>
\* One run of convertType, call by call.
walkVars == <<heap, stack, visits, ending>>

\* One AI request, call by call.
aiVars ==
  <<request, run, callLog, fileUrls, urlIndex, parts, loadedFiles, skippedFiles>>

vars == <<serverVars, compilerVars, walkVars, aiVars>>

\* ------------------------------------------------------ registry builder
\* const modelName = definition.name || path.parse(file).name
modelName(entry) ==
  IF entry.definition.name # <<>> THEN entry.definition.name[1] ELSE entry.stem

DateNowField == Obj([type |-> Ctor("Date"), default |-> Fn("Date.now")])

\* convertType(fieldDef) followed by the 'required' marking of one property.
mongooseDef(definition, propName) ==
  LET converted == convertType(definition.properties[1][propName])
  IN IF /\ definition.required # <<>>
        /\ propName \in definition.required[1]
        /\ "type" \in DOMAIN converted
     THEN Put(converted, "required", Bool(TRUE))
     ELSE converted

\* Variant: only created_date is a base field.
schemaObjWithoutUpdated(definition) ==
  LET base == [k \in {"created_date"} |-> DateNowField]
      props == IF definition.properties = <<>> THEN <<>>
               ELSE [p \in DOMAIN definition.properties[1] |->
                       Obj(mongooseDef(definition, p))]
  IN Merge(props, base)

\* The schemaObj of one definition: the two base fields, then every property
\* assigned over them.
schemaObj(definition) ==
  LET base == [k \in {"created_date", "updated_date"} |-> DateNowField]
      props == IF definition.properties = <<>> THEN <<>>
               ELSE [p \in DOMAIN definition.properties[1] |->
                       Obj(mongooseDef(definition, p))]
  IN Merge(props, base)

\* Keys that Schema.prototype.add skips.
specialProperties == {"__proto__", "constructor", "prototype"}

IsPojo(v) == DOMAIN v = {"obj"}
IsPrimitive(v) == DOMAIN v = {"bool"} \/ DOMAIN v = {"lit"}

\* For an array envelope: the element type an 'enum' option is applied to.
RECURSIVE ArrayLeaf(_)
ArrayLeaf(t) == IF DOMAIN t = {"arr"} THEN ArrayLeaf(t.arr) ELSE t

\* A POJO that Schema.prototype.add treats as a tree of deeper paths: it has
\* keys, and no 'type' key or a 'type' that is itself a POJO with a 'type'.
IsNestedTree(m) ==
  /\ DOMAIN m # {}
  /\ \/ "type" \notin DOMAIN m
     \/ /\ IsPojo(m["type"])
        /\ "type" \in DOMAIN m["type"].obj

\* new mongoose.Schema(tree) throws: a path whose value is a bare primitive,
\* or an 'enum' option on an array whose elements are not strings or numbers.
RECURSIVE SchemaThrows(_)
SchemaThrows(tree) ==
  \E key \in DOMAIN tree \ specialProperties :
    LET val == tree[key] IN
      \/ IsPrimitive(val)
      \/ /\ IsPojo(val)
         /\ IF IsNestedTree(val.obj) THEN SchemaThrows(val.obj)
            ELSE /\ "type" \in DOMAIN val.obj
                 /\ DOMAIN val.obj["type"] = {"arr"}
                 /\ \/ /\ "enum" \in DOMAIN val.obj
                       /\ ArrayLeaf(val.obj["type"]) \notin {Ctor("String"), Ctor("Number")}
                    \/ /\ IsPojo(val.obj["type"].arr)
                       /\ SchemaThrows(val.obj["type"].arr.obj)

\* A compiled model: mongoose.model(name, new mongoose.Schema(tree, { strict: false })).
Model(name, tree) == [modelName |-> name, schema |-> tree, strict |-> FALSE]

\* One console line.
Line(level, text, subject) == [level |-> level, text |-> text, subject |-> subject]

\* The outcome of the try block for one .json entry: "loaded" or the error.
LoadOutcome(entry, compiled) ==
  IF ~entry.parses THEN "require failed"
  ELSE IF SchemaThrows(schemaObj(entry.definition)) THEN "invalid schema"
  ELSE IF modelName(entry) \in compiled THEN "OverwriteModelError"
  ELSE "loaded"

\* One call of the forEach callback; `resume` is the entry visited after a
\* failed load.
LoadStep(resume) ==
  /\ pc = "scan"
  /\ dirExists
  /\ cursor <= Len(files)
  /\ LET entry == files[cursor]
         file == <<entry.stem, entry.ext>>
         outcome == LoadOutcome(entry, mongooseModels)
     IN IF entry.ext # ".json"
        THEN /\ cursor' = cursor + 1
             /\ UNCHANGED <<Models, mongooseModels, console>>
        ELSE IF outcome = "loaded"
        THEN /\ Models' = Put(Models, modelName(entry),
                               Model(modelName(entry), schemaObj(entry.definition)))
             /\ mongooseModels' = mongooseModels \cup {modelName(entry)}
             /\ console' = Append(console, Line("log", "Model Loaded", <<modelName(entry)>>))
             /\ cursor' = cursor + 1
        ELSE /\ console' = Append(console, Line("error", "Failed to load model", file))
             /\ cursor' = resume
             /\ UNCHANGED <<Models, mongooseModels>>
  /\ UNCHANGED <<dirExists, files, pc, store, nextId, response>>
  /\ UNCHANGED <<compilerVars, walkVars, aiVars>>

\* Variant: the try/catch encloses the whole forEach, so the first failure
\* ends the scan.
LoadFileStopsAtFailure == LoadStep(Len(files) + 1)

\* The try/catch is inside the callback: the scan goes on with the next entry.
LoadFile == LoadStep(cursor + 1)

\* The built-in User schema (lines 122-129).
UserSchema ==
  [email |-> Obj([type |-> Ctor("String"), required |-> Bool(TRUE),
                  unique |-> Bool(TRUE)]),
   password |-> Obj([type |-> Ctor("String"), required |-> Bool(TRUE)]),
   full_name |-> Ctor("String"),
   role |-> Obj([type |-> Ctor("String"), default |-> Lit("user")]),
   tenant_id |-> Ctor("String"),
   created_date |-> DateNowField]

\* The warning of a missing folder and the User fallback; `ready` says when
\* they run and `installs` whether the built-in schema is registered.
AfterScan(ready, installs) ==
  /\ pc = "scan"
  /\ ready
  /\ LET warned == IF dirExists THEN console
                   ELSE Append(console, Line("warn", "No definitions folder", <<>>))
     IN IF "User" \notin DOMAIN Models /\ installs
        THEN /\ Models' = Put(Models, "User", Model("User", UserSchema))
             /\ mongooseModels' = mongooseModels \cup {"User"}
             /\ console' = Append(warned, Line("log", "Using Default User Schema", <<>>))
        ELSE /\ console' = warned
             /\ UNCHANGED <<Models, mongooseModels>>
  /\ pc' = IF ~dirExists \/ cursor > Len(files) THEN "serving" ELSE "scan"
  /\ UNCHANGED <<dirExists, files, cursor, store, nextId, response>>
  /\ UNCHANGED <<compilerVars, walkVars, aiVars>>

\* Variant: the fallback sits inside the existsSync branch.
UserFallbackInsideBranch == AfterScan(~dirExists \/ cursor > Len(files), dirExists)

\* Variant: the fallback check runs before the scan.
UserFallbackBeforeScan ==
  AfterScan(~dirExists \/ cursor = 1 \/ cursor > Len(files), TRUE)

\* Variant: the directory is read without the existsSync test, so a missing
\* directory ends the module load before the fallback.
UserFallbackNeedsDirectory == AfterScan(dirExists /\ cursor > Len(files), TRUE)

\* What follows the scan (lines 113-131): it runs once the forEach has returned.
UserFallback == AfterScan(~dirExists \/ cursor > Len(files), TRUE)

\* ------------------------------------------------------- registry lookup
Undefined == [undef |-> TRUE]

\* Members every plain object inherits from Object.prototype: `Models` is
\* created as {} and read with Models[name].
ObjectPrototype ==
  [constructor |-> [builtin |-> "Object"],
   toString |-> [builtin |-> "Object.prototype.toString"],
   hasOwnProperty |-> [builtin |-> "Object.prototype.hasOwnProperty"],
   __proto__ |-> [builtin |-> "Object.prototype"]]

\* Models[name]
Lookup(models, name) ==
  IF name \in DOMAIN models THEN models[name]
  ELSE IF name \in DOMAIN ObjectPrototype THEN ObjectPrototype[name]
  ELSE Undefined

\* !Model
Falsy(v) == v = Undefined
IsMongooseModel(v) == "schema" \in DOMAIN v

\* ------------------------------------------------- documents and the store
Oid(n) == [oid |-> n]
DateValue == [date |-> "now"]

\* The schema path a tree value declares: "leaf", "array", "nested" or "mixed".
PathKind(val) ==
  IF ~IsPojo(val) THEN (IF DOMAIN val = {"arr"} THEN "array" ELSE "leaf")
  ELSE IF DOMAIN val.obj = {} THEN "mixed"
  ELSE IF IsNestedTree(val.obj) THEN "nested"
  ELSE IF DOMAIN val.obj["type"] = {"arr"} THEN "array"
  ELSE "leaf"

\* The options object of a leaf or array path (a bare constructor has none).
PathOptions(val) == IF IsPojo(val) THEN val.obj ELSE <<>>

\* The default mongoose gives a path missing from a new document, if any.
HasDefault(val) ==
  \/ PathKind(val) = "array"
  \/ PathKind(val) = "leaf" /\ "default" \in DOMAIN PathOptions(val)

DefaultOf(val) ==
  IF PathKind(val) = "array" /\ "default" \notin DOMAIN PathOptions(val) THEN List(<<>>)
  ELSE IF DOMAIN PathOptions(val)["default"] = {"fn"} THEN DateValue
  ELSE PathOptions(val)["default"]

\* Variant: the schema is strict, so new Model(body) drops the fields of the
\* body that the schema does not declare.
NewDocumentStrict(tree, body) ==
  LET defaulted == {p \in DOMAIN tree \ specialProperties :
                      p \notin DOMAIN body /\ HasDefault(tree[p])}
      kept == [p \in DOMAIN body \cap DOMAIN tree |-> body[p]]
  IN Merge(kept, [p \in defaulted |-> DefaultOf(tree[p])])

\* new Model(body): the body's fields (strict: false keeps undeclared ones) plus
\* the defaults of the declared top-level paths the body lacks.
NewDocument(tree, body) ==
  LET defaulted == {p \in DOMAIN tree \ specialProperties :
                      p \notin DOMAIN body /\ HasDefault(tree[p])}
  IN Merge(body, [p \in defaulted |-> DefaultOf(tree[p])])

\* The elements of a value an enum validator looks at.
EnumSubjects(v) ==
  IF DOMAIN v = {"list"} THEN {v.list[k] : k \in DOMAIN v.list}
  ELSE IF DOMAIN v = {"lit"} THEN {v.lit}
  ELSE {}

\* document.validate(): the paths that fail their required or enum validator.
RECURSIVE InvalidPaths(_, _)
InvalidPaths(tree, doc) ==
  {p \in DOMAIN tree \ specialProperties :
     LET val == tree[p]
         opts == PathOptions(val)
     IN IF PathKind(val) = "nested"
        THEN /\ p \in DOMAIN doc
             /\ IsPojo(doc[p])
             /\ InvalidPaths(val.obj, doc[p].obj) # {}
        ELSE \/ /\ "required" \in DOMAIN opts
                /\ p \notin DOMAIN doc
             \/ /\ "enum" \in DOMAIN opts
                /\ opts["type"] \in {Ctor("String"), Ctor("Number"),
                                     Arr(Ctor("String")), Arr(Ctor("Number"))}
                /\ p \in DOMAIN doc
                /\ \E e \in EnumSubjects(doc[p]) :
                     \A k \in DOMAIN opts["enum"].list : opts["enum"].list[k] # e}

\* The declared paths with a unique index.
UniquePaths(tree) ==
  {p \in DOMAIN tree : "unique" \in DOMAIN PathOptions(tree[p])}

\* A unique index rejects the insert (E11000).
DuplicateKey(records, coll, tree, doc) ==
  \E p \in UniquePaths(tree) :
    \E k \in DOMAIN records :
      /\ records[k].coll = coll
      /\ p \in DOMAIN doc
      /\ p \in DOMAIN records[k].doc
      /\ records[k].doc[p] = doc[p]

\* item.save(): the stored record, or the error that save() rejects with.
SaveResult(records, model, doc, id) ==
  IF InvalidPaths(model.schema, doc) # {} THEN [error |-> "ValidationError"]
  ELSE IF DuplicateKey(records, model.modelName, model.schema, doc)
  THEN [error |-> "E11000 duplicate key"]
  ELSE [saved |-> Merge([_id |-> Oid(id), __v |-> Lit("0")], doc)]

Stored(coll, doc) == [coll |-> coll, doc |-> doc]

\* --------------------------------------------------------- HTTP responses
Res(route, entity, req, status, body) ==
  [route |-> route, entity |-> entity, req |-> req, status |-> status, body |-> body]

NoResponse == Res("none", "none", <<>>, 0, [none |-> TRUE])

EntityNotFound == [msg |-> "Entity not found"]

\* ----------------------------------------------------------------- inputs
\* Values of the :entity parameter.
EntityNames == {"Task", "Ghost", "constructor"}

\* Request bodies of the create route.
CreateBodies ==
  {[title |-> Lit("x")],
   [title |-> Lit("x"), priority |-> Lit("bogus")],
   [title |-> Lit("x"), nickname |-> Lit("zed"), tags |-> List(<<"c">>)]}

\* Filters and sort members of the filter route's body (sort is optional).
FilterInputs == {<<>>, [title |-> Lit(""), nickname |-> Lit("zed")]}
SortInputs == {<<>>, <<"-_id">>}

\* The id member of the update and delete bodies: not an ObjectId, or an
\* ObjectId (of a stored record or not).
IdInputs == {<<Lit("nope")>>} \cup {<<Oid(n)>> : n \in 1..MaxRecords}
\* The data member of the update body.
DataInputs == {<<[note |-> Lit("n")]>>}

\* mongoose.Types.ObjectId.isValid(req.body.id)
IsValidObjectId(id) == id # <<>> /\ DOMAIN id[1] = {"oid"}

\* ------------------------------------------------------ entity routes
\* The outcome of a handler: the response it sends and the store it leaves.
Outcome(status, body, records) == [status |-> status, body |-> body, records |-> records]

Reverse(s) == [k \in 1..Len(s) |-> s[Len(s) + 1 - k]]

\* cleanFilters: the filters whose value is neither undefined nor ''.
cleanFilters(filters) ==
  [key \in {k \in DOMAIN filters : filters[k] # Lit("")} |-> filters[key]]

\* Model.find(cleanFilters).sort(sortObj).exec() on one collection.
Find(records, coll, query, sort) ==
  LET Matches(r) == /\ r.coll = coll
                    /\ \A key \in DOMAIN query :
                         key \in DOMAIN r.doc /\ r.doc[key] = query[key]
      hits == SelectSeq(records, Matches)
      docs == [k \in 1..Len(hits) |-> hits[k].doc]
  IN IF sort # <<>> /\ sort[1] = "-_id" THEN Reverse(docs) ELSE docs

\* POST /entities/:entity/filter
filterHandler(models, records, entity, filters, sort) ==
  LET M == Lookup(models, entity) IN
    IF Falsy(M) THEN Outcome(400, EntityNotFound, records)
    ELSE IF ~IsMongooseModel(M) THEN Outcome(200, [docs |-> <<>>], records)
    ELSE Outcome(200, [docs |-> Find(records, M.modelName, cleanFilters(filters), sort)],
                 records)

\* POST /entities/:entity/create
createHandler(models, records, entity, body, id) ==
  LET M == Lookup(models, entity) IN
    IF Falsy(M) THEN Outcome(400, EntityNotFound, records)
    ELSE IF ~IsMongooseModel(M) THEN Outcome(400, [error |-> "TypeError"], records)
    ELSE LET r == SaveResult(records, M, NewDocument(M.schema, body), id) IN
           IF "saved" \in DOMAIN r
           THEN Outcome(200, [doc |-> r.saved],
                        Append(records, Stored(M.modelName, r.saved)))
           ELSE Outcome(400, r, records)

\* The position of the record with this id in a collection, or 0.
IndexOfId(records, coll, id) ==
  LET hits == {k \in DOMAIN records :
                 records[k].coll = coll /\ records[k].doc["_id"] = id}
  IN IF hits = {} THEN 0 ELSE CHOOSE k \in hits : TRUE

\* Variant: the id is checked before the entity name.
updateHandlerIdFirst(models, records, entity, id, data) ==
  LET M == Lookup(models, entity) IN
    IF ~IsValidObjectId(id) THEN Outcome(400, [error |-> "Invalid ID"], records)
    ELSE IF Falsy(M) THEN Outcome(400, EntityNotFound, records)
    ELSE IF ~IsMongooseModel(M) THEN Outcome(500, [text |-> "TypeError"], records)
    ELSE LET at == IndexOfId(records, M.modelName, id[1]) IN
           IF at = 0 THEN Outcome(200, [null |-> TRUE], records)
           ELSE LET old == records[at].doc
                    new == IF data = <<>> THEN old ELSE Merge(data[1], old)
                IN Outcome(200, [doc |-> new],
                           [records EXCEPT ![at] = Stored(M.modelName, new)])

\* POST /entities/:entity/update
updateHandler(models, records, entity, id, data) ==
  LET M == Lookup(models, entity) IN
    IF Falsy(M) THEN Outcome(400, EntityNotFound, records)
    ELSE IF ~IsValidObjectId(id) THEN Outcome(400, [error |-> "Invalid ID"], records)
    ELSE IF ~IsMongooseModel(M) THEN Outcome(500, [text |-> "TypeError"], records)
    ELSE LET at == IndexOfId(records, M.modelName, id[1]) IN
           IF at = 0 THEN Outcome(200, [null |-> TRUE], records)
           ELSE LET old == records[at].doc
                    new == IF data = <<>> THEN old ELSE Merge(data[1], old)
                IN Outcome(200, [doc |-> new],
                           [records EXCEPT ![at] = Stored(M.modelName, new)])

\* POST /entities/:entity/delete
deleteHandler(models, records, entity, id) ==
  LET M == Lookup(models, entity) IN
    IF Falsy(M) THEN Outcome(400, EntityNotFound, records)
    ELSE IF ~IsValidObjectId(id) THEN Outcome(400, [error |-> "Invalid ID"], records)
    ELSE IF ~IsMongooseModel(M) THEN Outcome(500, [text |-> "TypeError"], records)
    ELSE LET at == IndexOfId(records, M.modelName, id[1])
             Keep(r) == ~(r.coll = M.modelName /\ r.doc["_id"] = id[1])
         IN Outcome(200, [success |-> TRUE], SelectSeq(records, Keep))

\* A handler's outcome becomes the response and the store.
Answer(route, entity, req, out) ==
  /\ response' = Res(route, entity, req, out.status, out.body)
  /\ store' = out.records
  /\ UNCHANGED <<compilerVars, walkVars, aiVars>>

FilterRequest ==
  /\ pc = "serving"
  /\ \E entity \in EntityNames, filters \in FilterInputs, sort \in SortInputs :
       Answer("filter", entity, [filters |-> filters, sort |-> sort],
              filterHandler(Models, store, entity, filters, sort))
  /\ UNCHANGED <<dirExists, files, cursor, pc, Models, mongooseModels, console, nextId>>

\* The create route as it would be if an unknown entity name were registered
\* on first use instead of being rejected.
CreateRequestRegistering ==
  /\ pc = "serving"
  /\ \E entity \in EntityNames, body \in CreateBodies :
       LET registry == IF Falsy(Lookup(Models, entity))
                       THEN Put(Models, entity, Model(entity, <<>>))
                       ELSE Models
           out == createHandler(registry, store, entity, body, nextId)
       IN /\ Models' = registry
          /\ Answer("create", entity, [body |-> body], out)
          /\ IF Len(out.records) > Len(store)
             THEN nextId <= MaxRecords /\ nextId' = nextId + 1
             ELSE UNCHANGED nextId
  /\ UNCHANGED <<dirExists, files, cursor, pc, mongooseModels, console>>

CreateRequest ==
  /\ pc = "serving"
  /\ \E entity \in EntityNames, body \in CreateBodies :
       LET out == createHandler(Models, store, entity, body, nextId) IN
         /\ Answer("create", entity, [body |-> body], out)
         /\ IF Len(out.records) > Len(store)
            THEN nextId <= MaxRecords /\ nextId' = nextId + 1
            ELSE UNCHANGED nextId
  /\ UNCHANGED <<dirExists, files, cursor, pc, Models, mongooseModels, console>>

UpdateRequest ==
  /\ pc = "serving"
  /\ \E entity \in EntityNames, id \in IdInputs, data \in DataInputs :
       Answer("update", entity, [id |-> id, data |-> data],
              updateHandler(Models, store, entity, id, data))
  /\ UNCHANGED <<dirExists, files, cursor, pc, Models, mongooseModels, console, nextId>>

DeleteRequest ==
  /\ pc = "serving"
  /\ \E entity \in EntityNames, id \in IdInputs :
       Answer("delete", entity, [id |-> id], deleteHandler(Models, store, entity, id))
  /\ UNCHANGED <<dirExists, files, cursor, pc, Models, mongooseModels, console, nextId>>

\* -------------------------------------------------- AI routes (api.js)
\* retries = 3, the default of generateWithRetry
DefaultRetries == 3

\* generateWithRetry when the model's next `failures` calls fail: whether it
\* resolves, and how many calls it made.
RECURSIVE generateWithRetry(_, _)
generateWithRetry(failures, retries) ==
  IF failures = 0 THEN [ok |-> TRUE, calls |-> 1]
  ELSE IF retries > 0
  THEN LET rest == generateWithRetry(failures - 1, retries - 1)
       IN [ok |-> rest.ok, calls |-> rest.calls + 1]
  ELSE [ok |-> FALSE, calls |-> 1]

\* How many calls in a row a model may fail.
FailureInputs == 0..(DefaultRetries + 1)

\* What result.response.text() may hold: not JSON, JSON without tasks, an
\* empty task list, a task with a title, a task without one.
TextInputs ==
  {[json |-> FALSE, tasks |-> <<>>],
   [json |-> TRUE, tasks |-> <<>>],
   [json |-> TRUE, tasks |-> <<[title |-> Lit("t")]>>],
   [json |-> TRUE, tasks |-> <<[note |-> Lit("n")]>>]}

\* The fields the sprint route adds to every generated task (the members of
\* the request that are undefined are left out).
tasksToCreate(tasks) ==
  [k \in DOMAIN tasks |->
     Merge([tenant_id |-> Lit("t1"), project_id |-> Lit("p1"),
            workspace_id |-> Lit("w1"), status |-> Lit("todo"),
            ai_generated |-> Bool(TRUE), created_date |-> DateValue,
            updated_date |-> DateValue],
           tasks[k])]

\* Model.insertMany(docs): all documents are validated, then all are stored.
RECURSIVE insertMany(_, _, _, _)
insertMany(records, model, docs, id) ==
  IF docs = <<>> THEN [ok |-> TRUE, records |-> records]
  ELSE LET r == SaveResult(records, model, NewDocument(model.schema, Head(docs)), id)
       IN IF "saved" \notin DOMAIN r THEN [ok |-> FALSE, records |-> records]
          ELSE insertMany(Append(records, Stored(model.modelName, r.saved)),
                          model, Tail(docs), id + 1)

\* POST /ai/generate-sprint-tasks, once the key and the context are present.
sprintHandler(models, records, id, primaryFailures, fallbackFailures, text) ==
  LET primary == generateWithRetry(primaryFailures, DefaultRetries)
      fallback == generateWithRetry(fallbackFailures, DefaultRetries)
      calls == IF primary.ok THEN primary.calls ELSE primary.calls + fallback.calls
      failed == Outcome(500, [error |-> "Failed to generate tasks", calls |-> calls], records)
  IN IF ~primary.ok /\ ~fallback.ok THEN failed
     ELSE IF ~text.json THEN failed
     ELSE IF text.tasks = <<>>
     THEN Outcome(200, [message |-> "No tasks generated", calls |-> calls], records)
     ELSE IF ~IsMongooseModel(Lookup(models, "Task")) THEN failed
     ELSE LET made == insertMany(records, Lookup(models, "Task"),
                                 tasksToCreate(text.tasks), id)
          IN IF ~made.ok THEN failed
             ELSE IF IsMongooseModel(Lookup(models, "Activity"))
             THEN LET act == SaveResult(made.records, Lookup(models, "Activity"),
                               NewDocument(Lookup(models, "Activity").schema,
                                           [tenant_id |-> Lit("t1"), action |-> Lit("created"),
                                            entity_type |-> Lit("sprint"),
                                            entity_name |-> Lit("AI Tasks"),
                                            project_id |-> Lit("p1")]),
                               id + Len(text.tasks))
                  IN Outcome(200, [success |-> TRUE, calls |-> calls],
                             IF "saved" \in DOMAIN act
                             THEN Append(made.records, Stored("Activity", act.saved))
                             ELSE made.records)
             ELSE Outcome(200, [success |-> TRUE, calls |-> calls], made.records)

SprintRequest ==
  /\ pc = "serving"
  /\ \E keySet \in BOOLEAN, context \in BOOLEAN :
       IF ~keySet
       THEN /\ Answer("sprint", "none", <<>>,
                      Outcome(500, [error |-> "AI Configuration Error"], store))
            /\ UNCHANGED nextId
       ELSE IF ~context
       THEN /\ Answer("sprint", "none", <<>>,
                      Outcome(400, [error |-> "Missing required context"], store))
            /\ UNCHANGED nextId
       ELSE \E primaryFailures \in FailureInputs :
              \E fallbackFailures \in
                   (IF primaryFailures > DefaultRetries THEN FailureInputs ELSE {0}) :
              \E text \in (IF fallbackFailures > DefaultRetries
                           THEN {[json |-> FALSE, tasks |-> <<>>]} ELSE TextInputs) :
                LET out == sprintHandler(Models, store, nextId, primaryFailures,
                                         fallbackFailures, text)
                    added == Len(out.records) - Len(store)
                IN /\ added > 0 => nextId <= MaxRecords
                   /\ nextId' = nextId + added
                   /\ Answer("sprint", "none", <<>>, out)
  /\ UNCHANGED <<dirExists, files, cursor, pc, Models, mongooseModels, console>>

\* POST /integrations/llm: only the primary model is called.
llmHandler(records, failures, wantsJson, parsed) ==
  LET result == generateWithRetry(failures, DefaultRetries) IN
    IF ~result.ok
    THEN Outcome(500, [error |-> "AI Service unavailable", calls |-> result.calls], records)
    ELSE IF wantsJson /\ ~parsed
    THEN Outcome(500, [error |-> "Failed to generate valid JSON", calls |-> result.calls],
                 records)
    ELSE Outcome(200, [text |-> "generated", calls |-> result.calls], records)

LlmRequest ==
  /\ pc = "serving"
  /\ \E keySet \in BOOLEAN :
       IF ~keySet
       THEN Answer("llm", "none", <<>>,
                   Outcome(500, [error |-> "AI Configuration Error"], store))
       ELSE \E failures \in FailureInputs, wantsJson \in BOOLEAN :
              \E parsed \in (IF wantsJson /\ failures <= DefaultRetries
                             THEN BOOLEAN ELSE {TRUE}) :
                Answer("llm", "none", <<>>, llmHandler(store, failures, wantsJson, parsed))
  /\ UNCHANGED <<dirExists, files, cursor, pc, Models, mongooseModels, console, nextId>>

\* POST /integrations/email
EmailRequest ==
  /\ pc = "serving"
  /\ \E configured \in BOOLEAN, delivered \in BOOLEAN :
       Answer("email", "none", <<>>,
              IF ~configured
              THEN Outcome(500, [error |-> "Server email configuration is missing."], store)
              ELSE IF ~delivered THEN Outcome(500, [error |-> "smtp"], store)
              ELSE Outcome(200, [success |-> TRUE], store))
  /\ UNCHANGED <<dirExists, files, cursor, pc, Models, mongooseModels, console, nextId>>

\* POST /api/upload and GET /api/upload/:filename (routes/upload.js)
UploadRequest ==
  /\ pc = "serving"
  /\ \E route \in {"upload", "download"}, given \in BOOLEAN :
       Answer(route, "none", <<>>,
              IF route = "upload"
              THEN (IF given THEN Outcome(200, [url |-> "file"], store)
                    ELSE Outcome(400, [msg |-> "No file uploaded"], store))
              ELSE (IF given THEN Outcome(200, [file |-> "sent"], store)
                    ELSE Outcome(404, [msg |-> "File not found"], store)))
  /\ UNCHANGED <<dirExists, files, cursor, pc, Models, mongooseModels, console, nextId>>

\* ------------------------------------------------- auth routes (auth.js)
\* bcrypt.hash(password, salt)
Hash(password) == [hash |-> password]

Emails == {"a@x"}
\* The password member of a body: absent or a string.
PasswordInputs == {<<>>, <<"pw">>, <<"other">>}

\* User.findOne({ email }): the position of the first match, or 0.
findOneByEmail(records, email) ==
  LET hits == {k \in DOMAIN records :
                 /\ records[k].coll = "User"
                 /\ "email" \in DOMAIN records[k].doc
                 /\ records[k].doc["email"] = Lit(email)}
  IN IF hits = {} THEN 0 ELSE CHOOSE k \in hits : \A j \in hits : k <= j

ServerError == [text |-> "Server error"]

\* POST /register
registerHandler(models, records, id, email, password, secretSet) ==
  LET User == Lookup(models, "User")
      Tenant == Lookup(models, "Tenant")
  IN IF findOneByEmail(records, email) # 0
     THEN Outcome(400, [msg |-> "User already exists"], records)
     ELSE IF ~IsMongooseModel(Tenant) THEN Outcome(500, ServerError, records)
     ELSE LET t == SaveResult(records, Tenant,
                     NewDocument(Tenant.schema,
                                 [name |-> Lit("Workspace"), owner_email |-> Lit(email),
                                  status |-> Lit("active"),
                                  subscription_plan |-> Lit("free")]), id)
          IN IF "saved" \notin DOMAIN t THEN Outcome(500, ServerError, records)
             ELSE LET withTenant == Append(records, Stored("Tenant", t.saved)) IN
               IF password = <<>> THEN Outcome(500, ServerError, withTenant)
               ELSE LET u == SaveResult(withTenant, User,
                               NewDocument(User.schema,
                                           [email |-> Lit(email),
                                            password |-> Hash(password[1]),
                                            role |-> Lit("owner"),
                                            tenant_id |-> Oid(id),
                                            is_super_admin |-> Bool(FALSE)]), id + 1)
                    IN IF "saved" \notin DOMAIN u THEN Outcome(500, ServerError, withTenant)
                       ELSE LET linked ==
                                  Append(Append(records,
                                                Stored("Tenant",
                                                       Put(t.saved, "owner_user_id",
                                                           Oid(id + 1)))),
                                         Stored("User", u.saved))
                            IN IF ~secretSet THEN Outcome(500, ServerError, linked)
                               ELSE Outcome(200, [token |-> Oid(id + 1)], linked)

\* POST /accept-invite
acceptInviteHandler(models, records, id, email, password) ==
  LET User == Lookup(models, "User") IN
    IF findOneByEmail(records, email) # 0
    THEN Outcome(400, [msg |-> "User already exists"], records)
    ELSE IF password = <<>> THEN Outcome(500, ServerError, records)
    ELSE LET u == SaveResult(records, User,
                    NewDocument(User.schema,
                                [email |-> Lit(email), password |-> Hash(password[1]),
                                 role |-> Lit("user"), is_super_admin |-> Bool(FALSE),
                                 status |-> Lit("active")]), id)
         IN IF "saved" \notin DOMAIN u THEN Outcome(500, ServerError, records)
            ELSE Outcome(200, [msg |-> "User registered successfully"],
                         Append(records, Stored("User", u.saved)))

\* POST /login
loginHandler(records, email, password, secretSet) ==
  LET at == findOneByEmail(records, email) IN
    IF at = 0 THEN Outcome(400, [msg |-> "Invalid Credentials"], records)
    ELSE IF password = <<>> \/ "password" \notin DOMAIN records[at].doc
    THEN Outcome(500, ServerError, records)
    ELSE IF records[at].doc["password"] # Hash(password[1])
    THEN Outcome(400, [msg |-> "Invalid Credentials"], records)
    ELSE IF ~secretSet THEN Outcome(500, ServerError, records)
    ELSE Outcome(200, [token |-> records[at].doc["_id"]], records)

RegisterRequest ==
  /\ pc = "serving"
  /\ \E email \in Emails, password \in PasswordInputs, secretSet \in BOOLEAN :
       LET out == registerHandler(Models, store, nextId, email, password, secretSet)
           added == Len(out.records) - Len(store)
       IN /\ added > 0 => nextId <= MaxRecords
          /\ nextId' = nextId + added
          /\ Answer("register", "none", <<>>, out)
  /\ UNCHANGED <<dirExists, files, cursor, pc, Models, mongooseModels, console>>

AcceptInviteRequest ==
  /\ pc = "serving"
  /\ \E email \in Emails, password \in PasswordInputs :
       LET out == acceptInviteHandler(Models, store, nextId, email, password)
           added == Len(out.records) - Len(store)
       IN /\ added > 0 => nextId <= MaxRecords
          /\ nextId' = nextId + added
          /\ Answer("accept-invite", "none", <<>>, out)
  /\ UNCHANGED <<dirExists, files, cursor, pc, Models, mongooseModels, console>>

LoginRequest ==
  /\ pc = "serving"
  /\ \E email \in Emails, password \in PasswordInputs, secretSet \in BOOLEAN :
       Answer("login", "none", <<>>, loginHandler(store, email, password, secretSet))
  /\ UNCHANGED <<dirExists, files, cursor, pc, Models, mongooseModels, console, nextId>>

\* GET /me and PUT /updatedetails behind the auth middleware, which either
\* answers itself or passes the request on with req.user.id set.
AccountRequest ==
  /\ pc = "serving"
  /\ \E route \in {"me", "updatedetails"}, user \in {<<>>} \cup {<<Oid(n)>> : n \in 1..MaxRecords} :
       IF user = <<>>
       THEN Answer(route, "none", <<>>, Outcome(401, [msg |-> "denied"], store))
       ELSE LET at == IndexOfId(store, "User", user[1]) IN
              IF at = 0
              THEN Answer(route, "none", <<>>, Outcome(404, [msg |-> "User not found"], store))
              ELSE IF route = "me"
              THEN Answer(route, "none", <<>>, Outcome(200, [user |-> user[1]], store))
              ELSE \E data \in {[full_name |-> Lit("N")], [role |-> Lit("admin")]} :
                     LET new == Merge(data, store[at].doc) IN
                       Answer(route, "none", <<>>,
                              IF InvalidPaths(Lookup(Models, "User").schema, new) # {}
                              THEN Outcome(500, ServerError, store)
                              ELSE Outcome(200, [user |-> user[1]],
                                           [store EXCEPT ![at] = Stored("User", new)]))
  /\ UNCHANGED <<dirExists, files, cursor, pc, Models, mongooseModels, console, nextId>>

\* ------------------------------------------------------- specification
\* No definition is being compiled on its own.
CompilerIdle ==
  /\ source = EmptyDef
  /\ cached = EmptyDef
  /\ returned = <<>>
  /\ schemas = <<>>

\* No run of convertType is being followed call by call.
WalkIdle ==
  /\ heap = <<>>
  /\ stack = <<>>
  /\ visits = <<>>
  /\ ending = "none"

\* No AI request is being followed call by call.
NoRun == [model |-> "none", retries |-> 0, status |-> "none"]
AiIdle ==
  /\ request = "none"
  /\ run = NoRun
  /\ callLog = <<>>
  /\ fileUrls = <<>>
  /\ urlIndex = 1
  /\ parts = <<>>
  /\ loadedFiles = <<>>
  /\ skippedFiles = <<>>

\* No server is loading or serving.
ServerIdle ==
  /\ dirExists = FALSE
  /\ files = <<>>
  /\ cursor = 1
  /\ pc = "idle"
  /\ Models = <<>>
  /\ mongooseModels = {}
  /\ console = <<>>
  /\ store = <<>>
  /\ nextId = 1
  /\ response = NoResponse

\* The state when the module starts to load, for a set of possible directories.
Start(listings) ==
  /\ CompilerIdle
  /\ WalkIdle
  /\ AiIdle
  /\ dirExists \in BOOLEAN
  /\ files \in (IF dirExists THEN listings ELSE {<<>>})
  /\ cursor = 1
  /\ pc = "scan"
  /\ Models = <<>>
  /\ mongooseModels = {}
  /\ console = <<>>
  /\ store = <<>>
  /\ nextId = 1
  /\ response = NoResponse

Init == Start(ServedListings)

\* Module load of SchemaDefinitions.js.
Build ==
  \/ LoadFile
  \/ UserFallback

\* The routes of routes/api.js.
Serve ==
  \/ FilterRequest
  \/ CreateRequest
  \/ UpdateRequest
  \/ DeleteRequest
  \/ SprintRequest
  \/ LlmRequest
  \/ EmailRequest
  \/ UploadRequest
  \/ RegisterRequest
  \/ AcceptInviteRequest
  \/ LoginRequest
  \/ AccountRequest

Next == Build \/ Serve

\* The registry build followed by requests.
Spec == Init /\ [][Next]_vars

\* The registry build alone, over every directory listing.
BuildInit == Start(Listings)
BuildSpec == BuildInit /\ [][Build]_vars

\* ----------------------------------------- compiling one definition
\* The type names a descriptor may state: the six the compiler knows, one it
\* does not know, and none.
TypeNames ==
  {"string", "number", "integer", "boolean", "array", "object", "geo", NoType}

AnEnum == <<"a", "b">>

\* A descriptor as it is, with an enum, and with an enum and a default.
Decorated(d) ==
  {d, [d EXCEPT !.enum = <<AnEnum>>],
   [d EXCEPT !.enum = <<AnEnum>>, !.default = <<"a">>]}

\* Descriptors without items and without properties.
FlatDescriptors ==
  UNION {Decorated(Desc(t)) : t \in TypeNames}
    \cup {[Desc("string") EXCEPT !.format = f] : f \in {"date", "date-time"}}

\* Descriptors of nesting depth at most `depth`.
RECURSIVE Descriptors(_)
Descriptors(depth) ==
  IF depth = 0 THEN FlatDescriptors
  ELSE LET lower == Descriptors(depth - 1)
           Both(d) == {d, [d EXCEPT !.enum = <<AnEnum>>, !.default = <<"a">>]}
       IN lower
          \cup UNION {Both([Desc("array") EXCEPT !.items = <<x>>]) : x \in lower}
          \cup UNION {Both([Desc("object") EXCEPT !.properties = <<[a |-> x]>>]) :
                        x \in lower}
          \cup UNION {Both([Desc("object") EXCEPT
                              !.properties = <<[a |-> x, b |-> Desc("boolean")]>>]) :
                        x \in lower}

\* The property of the definition being compiled.
fieldDef == cached.properties[1]["p"]

\* A definition with one property p, listed in required or not, has been read.
CompileInit ==
  /\ ServerIdle
  /\ WalkIdle
  /\ AiIdle
  /\ \E field \in Descriptors(MaxDepth), listed \in BOOLEAN :
       source = Def(<<"Thing">>, <<[p |-> field]>>,
                    IF listed THEN <<{"p"}>> ELSE <<>>)
  /\ cached = source
  /\ returned = <<>>
  /\ schemas = <<>>

\* convertType(fieldDef): every assignment of convertType is to schemaType
\* or nestedSchema, objects it created; its argument is only read.
ConvertProperty ==
  /\ pc = "idle"
  /\ source # EmptyDef
  /\ returned = <<>>
  /\ returned' = <<convertType(fieldDef)>>
  /\ UNCHANGED <<source, cached, schemas>>
  /\ UNCHANGED <<serverVars, walkVars, aiVars>>

\* Variant: the default is taken out of the descriptor once it is copied.
CompileDefinitionInPlace ==
  /\ pc = "idle"
  /\ source # EmptyDef
  /\ Len(schemas) < MaxCompilations
  /\ schemas' = Append(schemas, schemaObj(cached))
  /\ cached' = [cached EXCEPT !.properties[1]["p"].default = <<>>]
  /\ UNCHANGED <<source, returned>>
  /\ UNCHANGED <<serverVars, walkVars, aiVars>>

\* Lines 81-100 for the definition: schemaObj is built from fresh objects;
\* the definition and its descriptors are only read.
CompileDefinition ==
  /\ pc = "idle"
  /\ source # EmptyDef
  /\ Len(schemas) < MaxCompilations
  /\ schemas' = Append(schemas, schemaObj(cached))
  /\ UNCHANGED <<source, cached, returned>>
  /\ UNCHANGED <<serverVars, walkVars, aiVars>>

CompileNext ==
  \/ ConvertProperty
  \/ CompileDefinition

\* One definition compiled, more than once, over every descriptor.
CompileSpec == CompileInit /\ [][CompileNext]_vars

\* -------------------------------------- convertType, call by call
\* Descriptor objects live at addresses; a properties map (one key, a) and
\* an items member hold the address of the descriptor they refer to, so that
\* a descriptor may refer back to itself.
Addresses == 1..MaxNodes

Node(type, properties, items) ==
  [type |-> type, properties |-> properties, items |-> items]

\* The descriptor objects one address may hold.
Nodes ==
  {Node("string", <<>>, <<>>), Node("object", <<>>, <<>>), Node("array", <<>>, <<>>)}
    \cup {Node("object", <<a>>, <<>>) : a \in Addresses}
    \cup {Node("array", <<>>, <<a>>) : a \in Addresses}

\* The descriptors convertType(h[n]) calls itself on, in order: the
\* properties of an object (line 44), the properties of the items of an
\* array of objects (line 27).
Callees(h, n) ==
  IF h[n].type = "object" THEN h[n].properties
  ELSE IF h[n].type = "array" /\ h[n].items # <<>>
          /\ h[h[n].items[1]].type = "object"
  THEN h[h[n].items[1]].properties
  ELSE <<>>

\* convertType(h[n]) calls itself on a fake field for the items (line 34);
\* that call returns without a further call.
CallsFakeField(h, n) ==
  h[n].type = "array" /\ h[n].items # <<>> /\ h[h[n].items[1]].type # "object"

\* One active call: its argument and the calls it still has to make.
Frame(h, n) == [node |-> n, todo |-> Callees(h, n)]

\* The stack frames the call of convertType(h[n]) needs at once, itself and
\* the fake-field call included, when made on a stack of `depth` calls.
Fits(h, n, depth) ==
  depth + (IF CallsFakeField(h, n) THEN 2 ELSE 1) <= MaxStack

\* Once, or more than once.
Visit(count) == IF count = 0 THEN 1 ELSE 2

WalkInit ==
  /\ ServerIdle
  /\ CompilerIdle
  /\ AiIdle
  /\ heap \in [Addresses -> Nodes]
  /\ stack = <<>>
  /\ visits = [n \in Addresses |-> 0]
  /\ ending = "running"

\* A call that does not fit the stack throws RangeError, which unwinds
\* every call of convertType and is caught by the loader (lines 108-110).
Overflow ==
  /\ stack' = <<>>
  /\ ending' = "load error"
  /\ UNCHANGED <<heap, visits>>

\* Line 91: the loader calls convertType on the descriptor at address 1.
WalkEnter ==
  /\ pc = "idle"
  /\ heap # <<>>
  /\ ending = "running"
  /\ stack = <<>>
  /\ visits[1] = 0
  /\ IF Fits(heap, 1, 0)
     THEN /\ stack' = <<Frame(heap, 1)>>
          /\ visits' = [visits EXCEPT ![1] = Visit(@)]
          /\ UNCHANGED <<heap, ending>>
     ELSE Overflow
  /\ UNCHANGED <<serverVars, compilerVars, aiVars>>

\* Lines 27 and 44: the innermost call calls convertType on its next one.
WalkCall ==
  /\ pc = "idle"
  /\ stack # <<>>
  /\ stack[Len(stack)].todo # <<>>
  /\ LET top == stack[Len(stack)]
         callee == Head(top.todo)
     IN IF Fits(heap, callee, Len(stack))
        THEN /\ stack' = Append([stack EXCEPT ![Len(stack)].todo = Tail(top.todo)],
                                Frame(heap, callee))
             /\ visits' = [visits EXCEPT ![callee] = Visit(@)]
             /\ UNCHANGED <<heap, ending>>
        ELSE Overflow
  /\ UNCHANGED <<serverVars, compilerVars, aiVars>>

\* Lines 50 and 65: the innermost call has made its calls and returns.
WalkReturn ==
  /\ pc = "idle"
  /\ stack # <<>>
  /\ stack[Len(stack)].todo = <<>>
  /\ stack' = SubSeq(stack, 1, Len(stack) - 1)
  /\ ending' = IF Len(stack) = 1 THEN "returned" ELSE ending
  /\ UNCHANGED <<heap, visits>>
  /\ UNCHANGED <<serverVars, compilerVars, aiVars>>

WalkNext ==
  \/ WalkEnter
  \/ WalkCall
  \/ WalkReturn

\* One call of convertType from the loader, over every arrangement of
\* descriptors in memory; a call that can take a step takes it.
WalkSpec == WalkInit /\ [][WalkNext]_vars
WalkFairSpec == WalkSpec /\ WF_vars(WalkNext)

\* ================================================================ claims
\* ------------------------------------------- AI routes, call by call
PRIMARY_MODEL == "gemini-2.0-flash"
FALLBACK_MODEL == "gemini-1.5-flash"

\* One call of generateWithRetry(genAI, modelName, params): the model, the
\* retries of the innermost call, where it stands, and the position in the
\* call log of the attempt whose result or error it settled with.
NewRun(name) ==
  [model |-> name, retries |-> DefaultRetries, status |-> "calling", by |-> 0]

\* A handler is running and has not answered yet.
Running == pc = "serving" /\ request # "none" /\ response = NoResponse
\* A handler has answered.
Answered == pc = "serving" /\ request # "none" /\ response # NoResponse

\* Variant: the last retry is not made.
attemptSettledShort(r, ok, position) ==
  IF ok THEN [r EXCEPT !.status = "resolved", !.by = position]
  ELSE IF r.retries > 1 THEN [r EXCEPT !.status = "waiting"]
  ELSE [r EXCEPT !.status = "rejected", !.by = position]

\* Lines 78-91: the attempt resolved (line 83 returns its result) or threw;
\* the catch retries while retries > 0 and else rethrows the error it caught.
attemptSettled(r, ok, position) ==
  IF ok THEN [r EXCEPT !.status = "resolved", !.by = position]
  ELSE IF r.retries > 0 THEN [r EXCEPT !.status = "waiting"]
  ELSE [r EXCEPT !.status = "rejected", !.by = position]

\* Lines 79-83: getGenerativeModel and generateContent, which settle.
ModelCall ==
  /\ Running
  /\ run.status = "calling"
  /\ \E ok \in BOOLEAN :
       /\ callLog' = Append(callLog, [model |-> run.model, ok |-> ok])
       /\ run' = attemptSettled(run, ok, Len(callLog) + 1)
  /\ UNCHANGED <<request, fileUrls, urlIndex, parts, loadedFiles, skippedFiles>>
  /\ UNCHANGED <<serverVars, compilerVars, walkVars>>

\* Lines 87-88: the two seconds are over; generateWithRetry calls itself
\* with retries - 1.
RetryTimer ==
  /\ Running
  /\ run.status = "waiting"
  /\ run' = [run EXCEPT !.retries = @ - 1, !.status = "calling"]
  /\ UNCHANGED <<request, callLog, fileUrls, urlIndex, parts, loadedFiles, skippedFiles>>
  /\ UNCHANGED <<serverVars, compilerVars, walkVars>>

\* How many calls of a model the log holds, and how many of them failed.
CallsOf(log, name) == Len(SelectSeq(log, LAMBDA c : c.model = name))
FailuresOf(log, name) ==
  Len(SelectSeq(log, LAMBDA c : c.model = name /\ ~c.ok))

\* POST /ai/generate-sprint-tasks with the key and the context present:
\* line 177 calls generateWithRetry on the primary model.
SprintBegin ==
  /\ pc = "serving"
  /\ request = "none"
  /\ request' = "sprint"
  /\ run' = NewRun(PRIMARY_MODEL)
  /\ callLog' = <<>>
  /\ fileUrls' = <<>>
  /\ urlIndex' = 1
  /\ parts' = <<>>
  /\ loadedFiles' = <<>>
  /\ skippedFiles' = <<>>
  /\ response' = NoResponse
  /\ UNCHANGED <<dirExists, files, cursor, pc, Models, mongooseModels, console, store,
                 nextId>>
  /\ UNCHANGED <<compilerVars, walkVars>>

\* Variant: the fallback is called as soon as the primary model has failed
\* once.
SprintFallbackEarly ==
  /\ Running
  /\ request = "sprint"
  /\ run.status \in {"waiting", "rejected"}
  /\ run.model = PRIMARY_MODEL
  /\ run' = NewRun(FALLBACK_MODEL)
  /\ UNCHANGED <<request, callLog, fileUrls, urlIndex, parts, loadedFiles, skippedFiles>>
  /\ UNCHANGED <<serverVars, compilerVars, walkVars>>

\* Lines 178-180: the primary call rejected; the catch calls the fallback.
SprintFallback ==
  /\ Running
  /\ request = "sprint"
  /\ run.status = "rejected"
  /\ run.model = PRIMARY_MODEL
  /\ run' = NewRun(FALLBACK_MODEL)
  /\ UNCHANGED <<request, callLog, fileUrls, urlIndex, parts, loadedFiles, skippedFiles>>
  /\ UNCHANGED <<serverVars, compilerVars, walkVars>>

\* Lines 182-215: a call resolved and its text is parsed and stored, or the
\* fallback rejected too and the outer catch answers.
SprintAnswer ==
  /\ Running
  /\ request = "sprint"
  /\ \/ run.status = "resolved"
     \/ run.status = "rejected" /\ run.model = FALLBACK_MODEL
  /\ \E text \in (IF run.status = "resolved" THEN TextInputs
                  ELSE {[json |-> FALSE, tasks |-> <<>>]}) :
       LET out == sprintHandler(Models, store, nextId,
                                FailuresOf(callLog, PRIMARY_MODEL),
                                FailuresOf(callLog, FALLBACK_MODEL), text)
           added == Len(out.records) - Len(store)
       IN /\ added > 0 => nextId <= MaxRecords
          /\ nextId' = nextId + added
          /\ response' = Res("sprint", "none", [text |-> text], out.status, out.body)
          /\ store' = out.records
  /\ UNCHANGED <<request, run, callLog, fileUrls, urlIndex, parts, loadedFiles,
                 skippedFiles>>
  /\ UNCHANGED <<dirExists, files, cursor, pc, Models, mongooseModels, console>>
  /\ UNCHANGED <<compilerVars, walkVars>>

\* getFileHandler, by extension (lines 36-57), with the first five of the
\* text extensions.
getFileHandler(ext) ==
  IF ext \in {".jpg", ".jpeg", ".png", ".webp", ".pdf", ".heic", ".heif"} THEN "media"
  ELSE IF ext \in {".txt", ".md", ".csv", ".json", ".js"} THEN "text"
  ELSE "unsupported"

\* One entry of file_urls: the JSON value it is, whether decodeURIComponent
\* accepts its text, and the extension of the file name in it.
UrlEntry(type, decodes, ext) == [type |-> type, decodes |-> decodes, ext |-> ext]
\* '/uploads/a.txt', '/uploads/b.png', '/uploads/c.exe', '/uploads/100%.txt',
\* ['/uploads/a.txt'] and 5.
UrlEntries ==
  {UrlEntry("string", TRUE, ".txt"), UrlEntry("string", TRUE, ".png"),
   UrlEntry("string", TRUE, ".exe"), UrlEntry("string", FALSE, ".txt"),
   UrlEntry("array", TRUE, ".txt"), UrlEntry("number", TRUE, "")}

RECURSIVE UrlLists(_)
UrlLists(most) ==
  IF most = 0 THEN {<<>>}
  ELSE LET shorter == UrlLists(most - 1)
       IN shorter \cup {Append(l, e) : l \in {x \in shorter : Len(x) = most - 1},
                                       e \in UrlEntries}

\* The values of req.body.file_urls.
FileUrlInputs == UrlLists(MaxUrls)

\* String.prototype.startsWith and split exist on strings only.
HasStringMethods(url) == url.type = "string"

\* One iteration of the attachment loop (lines 237-306) on `url`, given
\* what the file system and the download do: where the iteration ends.
\*   "unsupported"  lines 243-247, skipped
\*   "local"        lines 254-270, a part pushed and loaded
\*   "download"     lines 277-301, a part pushed and loaded
\*   "failed"       lines 302-305, caught and skipped
\*   "thrown"       the catch block itself throws at line 304
attachment(url, localHit, readOk, downloadOk) ==
  LET caught == IF HasStringMethods(url) THEN "failed" ELSE "thrown" IN
    IF ~url.decodes THEN caught
    ELSE IF getFileHandler(url.ext) = "unsupported" THEN "unsupported"
    ELSE IF localHit /\ readOk THEN "local"
    ELSE IF ~HasStringMethods(url) THEN caught
    ELSE IF downloadOk THEN "download"
    ELSE caught

\* POST /integrations/llm with the key present.
LlmBegin ==
  /\ pc = "serving"
  /\ request = "none"
  /\ request' = "llm"
  /\ run' = NoRun
  /\ callLog' = <<>>
  /\ fileUrls' \in FileUrlInputs
  /\ urlIndex' = 1
  /\ parts' = <<>>
  /\ loadedFiles' = <<>>
  /\ skippedFiles' = <<>>
  /\ response' = NoResponse
  /\ UNCHANGED <<dirExists, files, cursor, pc, Models, mongooseModels, console, store,
                 nextId>>
  /\ UNCHANGED <<compilerVars, walkVars>>

\* The names in loadedFiles and skippedFiles are kept with the position of
\* the entry they came from.
Attach ==
  /\ Running
  /\ request = "llm"
  /\ run = NoRun
  /\ urlIndex <= Len(fileUrls)
  /\ \E localHit \in BOOLEAN, readOk \in BOOLEAN, downloadOk \in BOOLEAN :
       LET end == attachment(fileUrls[urlIndex], localHit, readOk, downloadOk) IN
         IF end = "thrown"
         THEN \* lines 366-369: the route's catch answers
              /\ response' = Res("llm", "none", <<>>, 500,
                                 [error |-> "AI Service unavailable", calls |-> 0])
              /\ UNCHANGED <<request, urlIndex, parts, loadedFiles, skippedFiles>>
         ELSE /\ urlIndex' = urlIndex + 1
              /\ parts' = IF end \in {"local", "download"}
                          THEN Append(parts, [file |-> urlIndex])
                          ELSE parts
              /\ loadedFiles' = IF end \in {"local", "download"}
                                THEN Append(loadedFiles, urlIndex) ELSE loadedFiles
              /\ skippedFiles' = IF end \in {"unsupported", "failed"}
                                 THEN Append(skippedFiles, urlIndex) ELSE skippedFiles
              /\ UNCHANGED <<request, response>>
  /\ UNCHANGED <<run, callLog, fileUrls>>
  /\ UNCHANGED <<dirExists, files, cursor, pc, Models, mongooseModels, console, store,
                 nextId>>
  /\ UNCHANGED <<compilerVars, walkVars>>

\* Lines 309-355: the prompt and the context are pushed and generateWithRetry
\* is called on the primary model.
LlmGenerate ==
  /\ Running
  /\ request = "llm"
  /\ run = NoRun
  /\ urlIndex > Len(fileUrls)
  /\ \E context \in BOOLEAN :
       parts' = parts \o <<[text |-> "prompt"]>>
                      \o (IF context THEN <<[text |-> "context"]>> ELSE <<>>)
  /\ run' = NewRun(PRIMARY_MODEL)
  /\ UNCHANGED <<request, callLog, fileUrls, urlIndex, loadedFiles, skippedFiles>>
  /\ UNCHANGED <<serverVars, compilerVars, walkVars>>

\* Lines 356-369: the call settled and the route answers.
LlmAnswer ==
  /\ Running
  /\ request = "llm"
  /\ run.status \in {"resolved", "rejected"}
  /\ \E wantsJson \in BOOLEAN :
       \E parsed \in (IF wantsJson /\ run.status = "resolved" THEN BOOLEAN ELSE {TRUE}) :
         LET out == llmHandler(store, FailuresOf(callLog, PRIMARY_MODEL), wantsJson, parsed)
         IN response' = Res("llm", "none", <<>>, out.status, out.body)
  /\ UNCHANGED <<request, run, callLog, fileUrls, urlIndex, parts, loadedFiles,
                 skippedFiles>>
  /\ UNCHANGED <<dirExists, files, cursor, pc, Models, mongooseModels, console, store,
                 nextId>>
  /\ UNCHANGED <<compilerVars, walkVars>>

\* The handler is over and its locals are gone; the answer stays.
HandlerReturns ==
  /\ Answered
  /\ request' = "none"
  /\ run' = NoRun
  /\ callLog' = <<>>
  /\ fileUrls' = <<>>
  /\ urlIndex' = 1
  /\ parts' = <<>>
  /\ loadedFiles' = <<>>
  /\ skippedFiles' = <<>>
  /\ UNCHANGED <<serverVars, compilerVars, walkVars>>

\* The steps of a request that has begun.
AiStep ==
  \/ ModelCall
  \/ RetryTimer
  \/ SprintFallback
  \/ SprintAnswer
  \/ Attach
  \/ LlmGenerate
  \/ LlmAnswer
  \/ HandlerReturns

AiNext ==
  \/ Build
  \/ SprintBegin
  \/ LlmBegin
  \/ AiStep

\* The registry build followed by AI requests, one at a time, each followed
\* call by call.
AiSpec == Init /\ [][AiNext]_vars
\* Every model call settles, every timer fires and the handler goes on.
AiFairSpec == AiSpec /\ WF_vars(AiStep)

\* --------------------------------------------------- helper predicates
Built == pc = "serving"

IsJson(entry) == entry.ext = ".json"

\* The entry would load if it were the only one in the directory.
LoadsAlone(entry) == IsJson(entry) /\ LoadOutcome(entry, {}) = "loaded"

\* console has the line.
Logged(line) == \E k \in DOMAIN console : console[k] = line

\* The scan registered a definition under this name.
ScanLoaded(name) == Logged(Line("log", "Model Loaded", <<name>>))

\* The scan reported a failed load of this entry.
ScanFailed(entry) == Logged(Line("error", "Failed to load model", <<entry.stem, entry.ext>>))

FallbackInstalled == Logged(Line("log", "Using Default User Schema", <<>>))

\* The compiled shape has a unique login identifier, a secret credential and
\* a role with a non-null default.
HasAccountShape(tree) ==
  /\ {"email", "password", "role"} \subseteq DOMAIN tree
  /\ "unique" \in DOMAIN PathOptions(tree["email"])
  /\ "default" \in DOMAIN PathOptions(tree["role"])
  /\ DOMAIN PathOptions(tree["role"])["default"] = {"lit"}

\* The definition file a registry entry was compiled from: the first entry
\* of the listing that declares the name and loads on its own.
SourceOf(name) ==
  LET ks == {k \in DOMAIN files : LoadsAlone(files[k]) /\ modelName(files[k]) = name}
  IN files[CHOOSE k \in ks : \A j \in ks : k <= j]

Declared(definition) ==
  IF definition.properties = <<>> THEN {} ELSE DOMAIN definition.properties[1]

\* C1 (as stated): after any registry build Models.User is present and its
\* shape includes a unique email, a password and a role with a default, also
\* when a User definition file loaded successfully.
C1_Original ==
  Built => "User" \in DOMAIN Models /\ HasAccountShape(Models["User"].schema)

\* C1 (amended): after any registry build Models.User is present; when the
\* scan registered no definition under the name User (no files, no
\* directory, a User file that failed to load) its shape is the built-in one
\* with a unique email, a password and a role whose default is 'user'; when
\* a definition registered under the name User its shape is the one compiled
\* from that definition, whatever fields it declares.
C1_UserPresent ==
  Built =>
    /\ "User" \in DOMAIN Models
    /\ IsMongooseModel(Lookup(Models, "User"))
    /\ ~ScanLoaded("User") =>
         /\ HasAccountShape(Models["User"].schema)
         /\ PathOptions(Models["User"].schema["role"])["default"] = Lit("user")
    /\ ScanLoaded("User") =>
         Models["User"].schema = schemaObj(SourceOf("User").definition)

\* A build whose User.json failed to load ended with the built-in User.
C1_Witness ==
  /\ Built
  /\ \E k \in DOMAIN files : files[k] = BadUserFile /\ ScanFailed(files[k])
  /\ ~ScanLoaded("User")
  /\ HasAccountShape(Models["User"].schema)

\* C3 (as stated): when two definition files declare the same name, the
\* registry entry has the fields of the later-processed one, the collision
\* is reported as a warning, and neither file is reported as a failed load.
C3_Original ==
  Built =>
    \A a, b \in DOMAIN files :
      (/\ a < b
       /\ LoadsAlone(files[a]) /\ LoadsAlone(files[b])
       /\ modelName(files[a]) = modelName(files[b])
       /\ \A c \in DOMAIN files : c > b => modelName(files[c]) # modelName(files[b]))
      => /\ Models[modelName(files[b])].schema = schemaObj(files[b].definition)
         /\ \E k \in DOMAIN console : console[k].level = "warn"
         /\ ~ScanFailed(files[a]) /\ ~ScanFailed(files[b])

\* C4: a failed load of one definition file is isolated: the file is reported
\* and not registered, every other entry is still visited, a definition that
\* loads on its own and shares its name with no other entry is registered
\* with its own fields, and the build completes.
C4_FailureIsolated ==
  /\ pc = "scan" => ENABLED Build
  /\ Built /\ dirExists => cursor = Len(files) + 1
  /\ Built =>
       \A k \in DOMAIN files :
         /\ IsJson(files[k]) /\ ~LoadsAlone(files[k]) => ScanFailed(files[k])
         /\ (/\ LoadsAlone(files[k])
             /\ \A j \in DOMAIN files :
                  j # k /\ IsJson(files[j]) => modelName(files[j]) # modelName(files[k]))
            => /\ modelName(files[k]) \in DOMAIN Models
               /\ Models[modelName(files[k])].schema = schemaObj(files[k].definition)
               /\ ~ScanFailed(files[k])

\* A finished build with a failing file between two files that registered.
C4_Witness ==
  /\ Built
  /\ \E a, b, c \in DOMAIN files :
       /\ a < b /\ b < c
       /\ ScanFailed(files[b]) /\ ~LoadsAlone(files[b])
       /\ LoadsAlone(files[a]) /\ modelName(files[a]) = "Task" /\ "Task" \in DOMAIN Models
       /\ LoadsAlone(files[c]) /\ modelName(files[c]) = "Label" /\ "Label" \in DOMAIN Models

\* C5: the User fallback check observes the final registry: it runs after
\* every directory entry was visited, the built-in schema is installed if and
\* only if the scan registered no User, and a User registered by the scan is
\* not replaced.
C5_FallbackSeesFinalRegistry ==
  /\ FallbackInstalled => ~dirExists \/ cursor > Len(files)
  /\ Built =>
       /\ FallbackInstalled <=> ~ScanLoaded("User")
       /\ \A k \in DOMAIN files :
            LoadsAlone(files[k]) /\ modelName(files[k]) = "User" => ScanLoaded("User")
       /\ ScanLoaded("User") =>
            \E k \in DOMAIN files :
              /\ LoadsAlone(files[k]) /\ modelName(files[k]) = "User"
              /\ DOMAIN Models["User"].schema =
                   DOMAIN files[k].definition.properties[1] \cup {"created_date", "updated_date"}
       /\ ~ScanLoaded("User") => Models["User"].schema = UserSchema

\* A finished build in which the scan registered User after a failed
\* User.json, and the fallback left it alone.
C5_Witness ==
  /\ Built
  /\ ScanLoaded("User")
  /\ ~FallbackInstalled
  /\ \E a, b \in DOMAIN files : a < b /\ files[a] = BadUserFile /\ files[b] = AccountFile
  /\ "password" \notin DOMAIN Models["User"].schema

\* C7 (as stated): every registry entry, compiled from a file or the built-in
\* User, has a created_date and an updated_date timestamp field whose default
\* is the creation time, whatever properties the file declares.
C7_Original ==
  Built =>
    \A name \in DOMAIN Models :
      \A stamp \in {"created_date", "updated_date"} :
        /\ stamp \in DOMAIN Models[name].schema
        /\ Models[name].schema[stamp] = DateNowField

\* C7 (amended): every entry compiled from a definition file has the fields
\* created_date and updated_date; each is a timestamp whose default is the
\* creation time unless the file declares a property of that name, whose
\* compiled descriptor then takes its place. The built-in User entry has
\* created_date with that default and no updated_date.
C7_TimestampFields ==
  Built =>
    \A name \in DOMAIN Models :
      IF ScanLoaded(name)
      THEN \A stamp \in {"created_date", "updated_date"} :
             /\ stamp \in DOMAIN Models[name].schema
             /\ IF stamp \in Declared(SourceOf(name).definition)
                THEN Models[name].schema[stamp] =
                       Obj(mongooseDef(SourceOf(name).definition, stamp))
                ELSE Models[name].schema[stamp] =
                       Obj([type |-> Ctor("Date"), default |-> Fn("Date.now")])
      ELSE /\ name = "User"
           /\ Models[name].schema["created_date"] =
                Obj([type |-> Ctor("Date"), default |-> Fn("Date.now")])
           /\ "updated_date" \notin DOMAIN Models[name].schema

\* A finished build with the built-in User, a Task entry with both default
\* timestamps and a Label entry whose own created_date property took over.
C7_Witness ==
  /\ Built
  /\ FallbackInstalled
  /\ ScanLoaded("Task") /\ ScanLoaded("Label")
  /\ Models["Label"].schema["created_date"] = Obj([type |-> Ctor("String")])
  /\ Models["Task"].schema["updated_date"] = DateNowField

\* C8 (as stated): a top-level field whose descriptor is a nested object is
\* never marked mandatory by the registry builder, even when it is listed in
\* required and whatever sub-fields it has (one named 'type' included).
C8_Original ==
  \A k \in DOMAIN files :
    (k < cursor /\ IsJson(files[k]) /\ files[k].parses) =>
      \A propName \in Declared(files[k].definition) :
        files[k].definition.properties[1][propName].type = "object"
          => "required" \notin DOMAIN
               schemaObj(files[k].definition)[propName].obj

\* The compiled value carries the enum of the descriptor, and of every
\* descriptor below it.
RECURSIVE EnumCarried(_, _)
EnumCarried(field, compiled) ==
  IF field.type = "object"
  THEN \/ field.properties = <<>>
       \/ \A key \in DOMAIN field.properties[1] :
            /\ key \in DOMAIN compiled
            /\ EnumCarried(field.properties[1][key], compiled[key].obj)
  ELSE /\ field.enum # <<>> =>
            "enum" \in DOMAIN compiled /\ compiled["enum"] = List(field.enum[1])
       /\ (field.type = "array" /\ field.items # <<>>) =>
            LET items == field.items[1] IN
              IF items.type = "object"
              THEN \/ items.properties = <<>>
                   \/ \A key \in DOMAIN items.properties[1] :
                        EnumCarried(items.properties[1][key],
                                    compiled["type"].arr.obj[key].obj)
              ELSE items.enum # <<>> =>
                     "enum" \in DOMAIN compiled /\ compiled["enum"] = List(items.enum[1])

\* C9 (as stated): every descriptor that carries an enum, at any position
\* (top-level field, field of a nested object, field of an array-of-object
\* record, items of an array of primitives), has that enum on the
\* corresponding value of the compiled schema of the registered model.
C9_Original ==
  Built =>
    \A name \in DOMAIN Models :
      ScanLoaded(name) =>
        \A propName \in Declared(SourceOf(name).definition) :
          EnumCarried(SourceOf(name).definition.properties[1][propName],
                      Models[name].schema[propName].obj)

EntityRoutes == {"filter", "create", "update", "delete"}

\* C2 (as stated): for every entity name the build did not register, names
\* found on the prototype of a plain object included, each of the four
\* generic routes answers 400 'Entity not found'.
C2_Original ==
  (response.route \in EntityRoutes /\ response.entity \notin DOMAIN Models)
    => response.status = 400 /\ response.body = EntityNotFound

\* The Task definition of the scenario is the one registered as Task.
TaskRegistered ==
  /\ "Task" \in DOMAIN Models
  /\ ScanLoaded("Task")
  /\ SourceOf("Task") = TaskFile

\* The last request was: create a Task from { title: 'x' }.
TaskCreateAnswered ==
  /\ response.route = "create"
  /\ response.entity = "Task"
  /\ response.req = [body |-> [title |-> Lit("x")]]

\* C10: with the Task definition registered, creating { title: 'x' } through
\* the create route does not fail and yields a stored record whose priority
\* is 'medium' and whose created_date and updated_date are set.
C10_TaskScenario ==
  (TaskRegistered /\ TaskCreateAnswered) =>
    /\ response.status = 200
    /\ DOMAIN response.body = {"doc"}
    /\ response.body.doc["title"] = Lit("x")
    /\ "priority" \in DOMAIN response.body.doc
    /\ response.body.doc["priority"] = Lit("medium")
    /\ {"created_date", "updated_date"} \subseteq DOMAIN response.body.doc
    /\ DOMAIN response.body.doc["created_date"] = {"date"}
    /\ DOMAIN response.body.doc["updated_date"] = {"date"}
    /\ Len(store) > 0
    /\ store[Len(store)] = Stored("Task", response.body.doc)

\* The scenario's create request was answered with the stored record.
C10_Witness ==
  /\ TaskRegistered
  /\ TaskCreateAnswered
  /\ response.status = 200
  /\ store[Len(store)].doc["priority"] = Lit("medium")

\* C6: once the build has finished the registry is read-only: no request to
\* the entity, auth, AI, email or upload routes adds, replaces or removes an
\* entry of Models.
C6_RegistryReadOnly == [][Built => Models' = Models]_vars

\* A request has been served after the build: a registration stored a Tenant
\* and a User record, and the registry holds the entries the build gave it.
C6_Witness ==
  /\ Built
  /\ response.route = "register"
  /\ response.status = 200
  /\ \E k \in DOMAIN store : store[k].coll = "Tenant"
  /\ \E k \in DOMAIN store : store[k].coll = "User"
  /\ DOMAIN Models = {"Task", "Tenant", "User"}

\* ------------------------------------------------ claims on convertType
\* convertType has been called on the property and has returned.
Returned == returned # <<>>

\* An object descriptor with the properties map P.
ObjectOf(P) == [Desc("object") EXCEPT !.properties = <<P>>]

\* C11: for a descriptor of type 'object' with properties P, convertType
\* returns exactly the map from each field name of P to convertType of its
\* descriptor: it has the keys of P and no others, also when the object
\* descriptor itself declares an enum or a default.
C11_ObjectIsBareShape ==
  (Returned /\ fieldDef.type = "object" /\ fieldDef.properties # <<>>) =>
    LET P == fieldDef.properties[1] IN
      /\ DOMAIN returned[1] = DOMAIN P
      /\ \A key \in DOMAIN P : returned[1][key] = Obj(convertType(P[key]))

\* An object descriptor that declares an enum and a default, and whose
\* property is itself an object, has been converted.
C11_Witness ==
  /\ Returned
  /\ fieldDef.type = "object"
  /\ fieldDef.enum # <<>> /\ fieldDef.default # <<>>
  /\ fieldDef.properties # <<>>
  /\ fieldDef.properties[1]["a"].type = "object"
  /\ fieldDef.properties[1]["a"].properties # <<>>
  /\ DOMAIN returned[1] = {"a", "b"}

\* C12: for a descriptor of type 'array' whose items have type 'object' and
\* properties P, the compiled field is a one-element array type whose record
\* shape is P compiled field by field with convertType, the shape the object
\* branch returns for P.
C12_ArrayOfRecords ==
  (/\ Returned /\ fieldDef.type = "array" /\ fieldDef.items # <<>>
   /\ fieldDef.items[1].type = "object" /\ fieldDef.items[1].properties # <<>>) =>
    LET P == fieldDef.items[1].properties[1] IN
      /\ DOMAIN returned[1].type = {"arr"}
      /\ DOMAIN returned[1].type.arr = {"obj"}
      /\ DOMAIN returned[1].type.arr.obj = DOMAIN P
      /\ \A key \in DOMAIN P :
           returned[1].type.arr.obj[key] = Obj(convertType(P[key]))
      /\ returned[1].type.arr.obj = convertType(ObjectOf(P))

\* An array of records with two fields, one of them with an enum and a
\* default, has been converted.
C12_Witness ==
  /\ Returned
  /\ fieldDef.type = "array" /\ fieldDef.items # <<>>
  /\ fieldDef.items[1].type = "object" /\ fieldDef.items[1].properties # <<>>
  /\ DOMAIN fieldDef.items[1].properties[1] = {"a", "b"}
  /\ fieldDef.items[1].properties[1]["a"].default # <<>>
  /\ returned[1].type.arr.obj["a"] =
       Obj([type |-> Ctor("String"), enum |-> List(AnEnum), default |-> Lit("a")])

PrimitiveTypes == {"string", "number", "integer", "boolean"}

\* C13 (as stated): for a descriptor of type 'array' whose items descriptor
\* is a primitive, the compiled element type is the type convertType gives
\* for the items descriptor itself, so that items of type string with format
\* date or date-time give an array of Date.
C13_Original ==
  (/\ Returned /\ fieldDef.type = "array" /\ fieldDef.items # <<>>
   /\ fieldDef.items[1].type \in PrimitiveTypes) =>
    returned[1].type = Arr(convertType(fieldDef.items[1]).type)

KnownTypes == PrimitiveTypes \cup {"array", "object"}

\* C14: convertType does not fail on an unrecognized type. A descriptor whose
\* type is none of string, number, integer, boolean, array, object (or is
\* absent) compiles to the Mixed type and still carries its enum and its
\* default; an array descriptor whose items are absent or have no type
\* compiles to an array of Mixed.
C14_PermissiveFallback ==
  /\ (pc = "idle" /\ source # EmptyDef /\ ~Returned) => ENABLED ConvertProperty
  /\ (Returned /\ fieldDef.type \notin KnownTypes) =>
       /\ returned[1].type = Ctor("Mixed")
       /\ DOMAIN returned[1] =
            {"type"} \cup (IF fieldDef.enum # <<>> THEN {"enum"} ELSE {})
                     \cup (IF fieldDef.default # <<>> THEN {"default"} ELSE {})
       /\ fieldDef.enum # <<>> => returned[1].enum = List(fieldDef.enum[1])
       /\ fieldDef.default # <<>> => returned[1].default = Lit(fieldDef.default[1])
  /\ (/\ Returned /\ fieldDef.type = "array"
      /\ (fieldDef.items = <<>> \/ fieldDef.items[1].type = NoType)) =>
       returned[1].type = Arr(Ctor("Mixed"))

\* A descriptor of an unknown type with an enum and a default has been
\* converted to Mixed with both.
C14_Witness ==
  /\ Returned
  /\ fieldDef.type = "geo"
  /\ returned[1] = [type |-> Ctor("Mixed"), enum |-> List(AnEnum), default |-> Lit("a")]

NestedIn(n) == heap[n].properties \o heap[n].items

\* The nesting of descriptors that starts at address n runs into a descriptor
\* it has already passed.
RECURSIVE SelfReferential(_, _)
SelfReferential(n, passed) ==
  \/ n \in passed
  \/ NestedIn(n) # <<>> /\ SelfReferential(NestedIn(n)[1], passed \cup {n})

\* The property descriptors a compilation of the descriptor at n has to
\* compile in turn: those of an object, those of the items of an array of
\* objects.
Descent(n) ==
  IF heap[n].type = "object" THEN heap[n].properties
  ELSE IF heap[n].type = "array" /\ heap[n].items # <<>>
          /\ heap[heap[n].items[1]].type = "object"
  THEN heap[heap[n].items[1]].properties
  ELSE <<>>

\* The descriptors to compile, from the one at n inwards.
RECURSIVE ToCompile(_, _)
ToCompile(n, passed) ==
  IF n \in passed THEN passed
  ELSE IF Descent(n) = <<>> THEN passed \cup {n}
  ELSE ToCompile(Descent(n)[1], passed \cup {n})

\* The nested calls needed to compile the descriptor at n, the call on the
\* fake field for the items of an array of non-objects included; more than
\* the stack holds when the descent never ends.
RECURSIVE Demand(_, _)
Demand(n, passed) ==
  IF n \in passed THEN MaxStack + 1
  ELSE IF Descent(n) = <<>>
  THEN (IF heap[n].type = "array" /\ heap[n].items # <<>>
           /\ heap[heap[n].items[1]].type # "object" THEN 2 ELSE 1)
  ELSE 1 + Demand(Descent(n)[1], passed \cup {n})

Walking == heap # <<>>

C19_Terminates ==
  /\ Walking => <>(ending # "running")
  /\ [](Walking /\ ending = "returned" =>
          /\ Demand(1, {}) <= MaxStack
          /\ \A n \in Addresses :
               visits[n] = IF n \in ToCompile(1, {}) THEN 1 ELSE 0)
  /\ [](Walking /\ ending = "load error" => Demand(1, {}) > MaxStack)

\* An array whose items are the array itself has been compiled and returned.
C19_CycleCompiled ==
  /\ Walking
  /\ heap[1] = Node("array", <<>>, <<1>>)
  /\ ending = "returned"

\* ------------------------------------------- claims on the registry build
\* A descriptor with neither a type nor items nor properties.
Malformed(field) ==
  field.type = NoType /\ field.items = <<>> /\ field.properties = <<>>

\* Compilation of the descriptor reaches a malformed one, at the top level
\* or during recursion.
RECURSIVE ReachesMalformed(_)
ReachesMalformed(field) ==
  \/ Malformed(field)
  \/ /\ field.type = "object" /\ field.properties # <<>>
     /\ \E key \in DOMAIN field.properties[1] :
          ReachesMalformed(field.properties[1][key])
  \/ /\ field.type = "array" /\ field.items # <<>>
     /\ field.items[1].type = "object" /\ field.items[1].properties # <<>>
     /\ \E key \in DOMAIN field.items[1].properties[1] :
          ReachesMalformed(field.items[1].properties[1][key])

\* C15 (as stated): a definition whose compilation reaches a malformed
\* descriptor fails to compile: the failure is reported and the definition is
\* not registered, while the build goes on.
C15_Original ==
  Built =>
    \A k \in DOMAIN files :
      (/\ IsJson(files[k]) /\ files[k].parses
       /\ \E propName \in Declared(files[k].definition) :
            ReachesMalformed(files[k].definition.properties[1][propName]))
      => /\ ScanFailed(files[k])
         /\ modelName(files[k]) \notin DOMAIN Models

\* C17: when the definitions directory does not exist the build does not
\* fail: it goes on to the fallback, reports no load error, and ends with a
\* registry of exactly one entry, the built-in User.
C17_MissingDirectory ==
  /\ (pc = "scan" /\ ~dirExists) => ENABLED Build
  /\ (Built /\ ~dirExists) =>
       /\ DOMAIN Models = {"User"}
       /\ Models["User"] = Model("User", UserSchema)
       /\ \A k \in DOMAIN console : console[k].level # "error"

\* A build without a definitions directory has finished with the warning
\* and the built-in User.
C17_Witness ==
  /\ Built
  /\ ~dirExists
  /\ FallbackInstalled
  /\ Logged(Line("warn", "No definitions folder", <<>>))
  /\ IsMongooseModel(Lookup(Models, "User"))

\* --------------------------------------------- claims on the entity routes
\* The fields of a body that the schema of the entity does not declare.
Undeclared(entity, body) == DOMAIN body \ DOMAIN Models[entity].schema

\* C16: a record created through the create route with fields the entity's
\* descriptor does not declare is stored with those fields, and a filter read
\* returns the stored records of the entity that match, each exactly as
\* stored: the extra fields come back with unchanged values.
C16_ExtraFieldsRoundTrip ==
  /\ (/\ response.route = "create" /\ response.status = 200
      /\ response.entity \in DOMAIN Models) =>
       /\ \A key \in Undeclared(response.entity, response.req.body) :
            /\ key \in DOMAIN response.body.doc
            /\ response.body.doc[key] = response.req.body[key]
       /\ store[Len(store)] = Stored(response.entity, response.body.doc)
  /\ (response.route = "filter" /\ response.entity \in DOMAIN Models) =>
       /\ response.status = 200
       /\ \A k \in DOMAIN store :
            (/\ store[k].coll = response.entity
             /\ \A key \in DOMAIN cleanFilters(response.req.filters) :
                  /\ key \in DOMAIN store[k].doc
                  /\ store[k].doc[key] = response.req.filters[key])
            => \E i \in DOMAIN response.body.docs :
                 response.body.docs[i] = store[k].doc

\* A Task created with the undeclared fields nickname and tags was read back
\* by a filter on nickname, with both fields as they were sent.
C16_Witness ==
  /\ response.route = "filter"
  /\ response.entity = "Task"
  /\ "Task" \in DOMAIN Models
  /\ response.status = 200
  /\ response.req.filters # <<>>
  /\ Len(response.body.docs) = 1
  /\ {"nickname", "tags"} \cap DOMAIN Models["Task"].schema = {}
  /\ response.body.docs[1]["nickname"] = Lit("zed")
  /\ response.body.docs[1]["tags"] = List(<<"c">>)


\* The stored records of one collection.
RecordsOf(coll) == {k \in DOMAIN store : store[k].coll = coll}

\* The User records with the given address.
UsersWith(email) ==
  {k \in RecordsOf("User") :
     "email" \in DOMAIN store[k].doc /\ store[k].doc["email"] = email}

\* C20 (as stated): whatever calls of POST /register and POST /accept-invite
\* have been answered, at most one User record has a given email, and every
\* Tenant record has a User record whose email is its owner_email: a
\* register call that did not create its User left no Tenant behind.
C20_Original ==
  /\ \A e \in Emails : Cardinality(UsersWith(Lit(e))) <= 1
  /\ \A t \in RecordsOf("Tenant") :
       "owner_email" \in DOMAIN store[t].doc =>
         UsersWith(store[t].doc["owner_email"]) # {}

\* A register call answered 500 and its Tenant is stored without a User.
C20_OrphanTenant ==
  /\ response.route = "register"
  /\ response.status = 500
  /\ RecordsOf("Tenant") # {}
  /\ RecordsOf("User") = {}


\* ------------------------------------------------ claims on the AI routes
\* The positions in the call log of the attempts of the current
\* generateWithRetry call.
Attempts == {k \in DOMAIN callLog : callLog[k].model = run.model}

Settled == run.status \in {"resolved", "rejected"}

\* C21: generateWithRetry with the default retries = 3 calls the model at
\* most 4 times; a successful attempt is its last one and its result is what
\* the call resolves with; it rejects only when all 4 attempts failed, and
\* then with the error of the last attempt; and every call settles.
C21_RetryBound ==
  /\ [](run.status # "none" =>
          /\ Cardinality(Attempts) <= DefaultRetries + 1
          /\ \A k \in Attempts :
               callLog[k].ok =>
                 k = Len(callLog) /\ run.status = "resolved" /\ run.by = k
          /\ run.status = "resolved" =>
               run.by \in Attempts /\ callLog[run.by].ok
          /\ run.status = "rejected" =>
               /\ Cardinality(Attempts) = DefaultRetries + 1
               /\ \A k \in Attempts : ~callLog[k].ok
               /\ run.by = Len(callLog)
               /\ run.by \in Attempts)
  /\ (run.status = "calling") ~> Settled

\* A call has rejected after four failed attempts.
C21_Witness ==
  /\ request = "llm"
  /\ run.status = "rejected"
  /\ Len(callLog) = 4
  /\ run.by = 4


\* The calls of the fallback model in the log.
FallbackCalls == {k \in DOMAIN callLog : callLog[k].model = FALLBACK_MODEL}

\* C22: in POST /ai/generate-sprint-tasks every call of the fallback model
\* comes after 4 failed calls of the primary model, the request makes at
\* most 8 model calls, and the store changes only when the last model call
\* succeeded and its text parsed as JSON; when both models are exhausted
\* the answer is 500 and the store is as it was. POST /integrations/llm
\* never calls the fallback model.
C22_FallbackOrder ==
  /\ [](request = "sprint" =>
          /\ Len(callLog) <= 2 * (DefaultRetries + 1)
          /\ \A k \in FallbackCalls :
               /\ k > DefaultRetries + 1
               /\ \A j \in 1..(DefaultRetries + 1) :
                    callLog[j].model = PRIMARY_MODEL /\ ~callLog[j].ok
          /\ Answered => response.body.calls = Len(callLog)
          /\ (Answered /\ run.status = "rejected") =>
               /\ Len(callLog) = 2 * (DefaultRetries + 1)
               /\ response.status = 500)
  /\ [](request = "llm" => FallbackCalls = {})
  /\ [][store' # store =>
          /\ request = "sprint"
          /\ run.status = "resolved"
          /\ callLog[Len(callLog)].ok
          /\ response'.req.text.json
          /\ response'.status = 200]_vars

\* The fallback model succeeded after the primary model was exhausted, and
\* the generated task is stored.
C22_Witness ==
  /\ request = "sprint"
  /\ Answered
  /\ Len(callLog) > DefaultRetries + 1
  /\ callLog[Len(callLog)] = [model |-> FALLBACK_MODEL, ok |-> TRUE]
  /\ response.status = 200
  /\ \E k \in DOMAIN store : store[k].coll = "Task"


\* How often the entry at position i is named in a list of file names.
Named(list, i) == Cardinality({k \in DOMAIN list : list[k] = i})

\* The entry at position i is in exactly one of loadedFiles and skippedFiles.
AccountedOnce(i) == Named(loadedFiles, i) + Named(skippedFiles, i) = 1

\* The parts pushed by the attachment loop.
AttachmentParts == {k \in DOMAIN parts : "file" \in DOMAIN parts[k]}

\* The handler has left the attachment loop.
LoopLeft == request = "llm" /\ (run.status # "none" \/ Answered)

\* C23 (as stated): in POST /integrations/llm, once the attachment loop is
\* left, every string entry of file_urls is in exactly one of loadedFiles
\* and skippedFiles and the attachment parts are as many as loadedFiles;
\* and no attachment ends the loop before the last entry.
C23_Original ==
  LoopLeft =>
    /\ \A i \in DOMAIN fileUrls :
         fileUrls[i].type = "string" => AccountedOnce(i)
    /\ Cardinality(AttachmentParts) = Len(loadedFiles)
    /\ urlIndex > Len(fileUrls)

\* What does hold of C23: every entry the loop has passed is in exactly one
\* of the two lists, the attachment parts are as many as loadedFiles, and
\* the loop is left early only at an entry that is not a string.
C23_PassedEntriesAccounted ==
  request = "llm" =>
    /\ \A i \in DOMAIN fileUrls : i < urlIndex => AccountedOnce(i)
    /\ \A i \in DOMAIN fileUrls :
         i >= urlIndex => Named(loadedFiles, i) + Named(skippedFiles, i) = 0
    /\ Cardinality(AttachmentParts) = Len(loadedFiles)
    /\ (LoopLeft /\ urlIndex <= Len(fileUrls)) =>
         /\ fileUrls[urlIndex].type # "string"
         /\ response.status = 500

\* The loop was left at a first entry that is an array, and the string entry
\* after it is in neither list.
C23_LoopAborted ==
  /\ request = "llm"
  /\ Answered
  /\ Len(fileUrls) = 2
  /\ urlIndex = 1
  /\ fileUrls[1].type = "array"
  /\ fileUrls[2] = UrlEntry("string", TRUE, ".txt")
  /\ loadedFiles = <<>>
  /\ skippedFiles = <<>>


\* --------------------------------- claims on the update and delete routes
\* The request just answered is an update or a delete the route rejects: its
\* entity name does not resolve or its id is not a valid ObjectId.
RejectedChange ==
  /\ response'.route \in {"update", "delete"}
  /\ \/ Falsy(Lookup(Models, response'.entity))
     \/ ~IsValidObjectId(response'.req.id)

\* C24: an update or delete request whose entity name does not resolve or
\* whose id is not a valid ObjectId is answered 400 and leaves the stored
\* records as they were; the entity is checked first, so an unknown entity
\* is answered 'Entity not found' whatever the id, and 'Invalid ID' is the
\* answer only for an entity that resolves.
C24_RejectionsTouchNothing ==
  [][RejectedChange =>
       /\ response'.status = 400
       /\ store' = store
       /\ response'.body = IF Falsy(Lookup(Models, response'.entity))
                           THEN EntityNotFound
                           ELSE [error |-> "Invalid ID"]]_vars

\* With a record stored, an update of an unknown entity with an invalid id
\* was answered 'Entity not found'.
C24_Witness ==
  /\ response.route = "update"
  /\ Falsy(Lookup(Models, response.entity))
  /\ ~IsValidObjectId(response.req.id)
  /\ response.status = 400
  /\ response.body = EntityNotFound
  /\ store # <<>>

====
